---- MODULE Spec2Model ----
(***************************************************************************)
(* A model of the core of cargo-crev:                                      *)
(*   - DepComputer (cargo-crev/src/dep/computer.rs): the per-dependency    *)
(*     verification pipeline try_compute / compute;                        *)
(*   - review_crate (cargo-crev/src/main.rs): the quarantine, re-fetch and *)
(*     compare protocol that produces the digest signed into a proof;      *)
(*   - the `verify deps` loop of main (cargo-crev/src/main.rs);            *)
(*   - sanitize_name (crev-common/src/lib.rs).                             *)
(* The specifications share the variables: Spec (DepComputer), SpecReview  *)
(* (review_crate), SpecVerifyDeps (the loop of main), SpecSanitize         *)
(* (sanitize_name), and the combinations SpecReviewThenVerify and SpecCore.*)
(***************************************************************************)
EXTENDS Integers, Sequences, FiniteSets, TLC

VARIABLES
    \* ---- DepComputer (computer.rs:35-45) ----
    db,                 \* ProofDB loaded at construction
    trust_set,          \* TrustSet computed at construction
    ignore_list,        \* HashSet<PathBuf>
    known_owners,       \* HashSet<String>
    requirements,       \* VerificationRequirements
    skip_verified,      \* bool
    skip_known_owners,  \* bool
    durations,          \* Durations
    \* ---- the batch the DepComputer is driven over ----
    rows,               \* the DepRows, each with its computation_status
    frame,              \* the locals of the running compute/try_compute call
    calls,              \* the collaborator calls issued by the running call, in order
    now,                \* the monotonic clock read by Instant::now()
    \* ---- the filesystem and review_crate (main.rs:180-245) ----
    fs,                 \* directory path -> tree, or NoDir
    rc,                 \* the locals and position of the running review_crate
    proofs,             \* the proofs inserted into the local proof store
    \* ---- the `verify deps` loop of main (main.rs:304-366) ----
    vd,                 \* position, printed lines and result of the loop
    \* ---- sanitize_name (crev-common/src/lib.rs:74-95) ----
    sn                  \* the argument and the result of the call

vars == <<db, trust_set, ignore_list, known_owners, requirements, skip_verified,
          skip_known_owners, durations, rows, frame, calls, now, fs, rc, proofs, vd, sn>>

dc_config == <<db, trust_set, ignore_list, known_owners, requirements,
               skip_verified, skip_known_owners>>

----------------------------------------------------------------------------
(* Bounds *)

MaxReviews == 1
MaxIssues == 1
MaxDownloads == 1
MaxNameLen == 2

----------------------------------------------------------------------------
(* Option<T>: None is the empty sequence, Some(x) the one-element sequence *)

None == <<>>
Some(x) == <<x>>
IsSome(o) == Len(o) = 1
Unwrap(o) == o[1]

----------------------------------------------------------------------------
(* Directory trees and the content digest *)

NoFile == "NoFile"

\* what a path holds: no directory, or a directory with its tree
NoDir == <<>>
Dir(tree) == <<tree>>
TreeAt(filesystem, path) == filesystem[path][1]

Files == {".cargo-ok", "Cargo.lock", "lib.rs", "main.rs"}
Bytes == {"b1", "b2"}
Trees == [Files -> Bytes \cup {NoFile}]

\* main.rs:169-175 with only the marker file of cargo on the list
cargo_ignore_list_marker_only == {".cargo-ok"}

\* cargo_ignore_list, main.rs:169-175
cargo_ignore_list == {".cargo-ok", "Cargo.lock", "target"}

\* cargo_min_ignore_list of crate::shared, used at computer.rs:59
cargo_min_ignore_list == {".cargo-ok", "Cargo.lock", "target"}

\* The recursive digest of a tree: a collision-free hash of the relative path
\* and bytes of every entry that is not in the ignore-list.
RecursiveDigest(tree, ignore) ==
    {<<p, tree[p]>> : p \in {q \in Files \ ignore : tree[q] # NoFile}}

get_dir_digest(tree, ignore) == RecursiveDigest(tree, ignore)
get_recursive_digest_for_dir(tree, ignore) == RecursiveDigest(tree, ignore)

\* a tree as the registry unpacks it: the marker file and the sources
Unpacked(bytes) == [f \in Files |-> IF f = "lib.rs" THEN bytes
                                    ELSE IF f = ".cargo-ok" THEN "b1" ELSE NoFile]

----------------------------------------------------------------------------
(* Paths.  A path is a sequence of components; a component is the sequence *)
(* of the parts of its name between the dots ("sample-1.0.0" is            *)
(* <<"sample-1", "0", "0">>, ".cargo" is <<"", "cargo">>).                 *)

\* semver versions, as their three dot-separated parts
V100 == <<"1", "0", "0">>
V101 == <<"1", "0", "1">>
Versions == {V100, V101}
CrateNames == {"sample", "other"}

\* "<name>-<major>", the first part of the directory name of a crate
NameDashMajor(name, major) ==
    CASE name = "sample" /\ major = "1" -> "sample-1"
      [] name = "other" /\ major = "1" -> "other-1"

\* std::env::current_dir(), main.rs:189
current_dir == << <<"home">>, <<"proj">> >>

\* CARGO_HOME: by default in the home directory, or configured inside the
\* working directory
CargoHomeDefault == << <<"home">>, <<"", "cargo">> >>
CargoHomeInCwd == << <<"home">>, <<"proj">>, <<"", "cargo">> >>
CargoHomes == {CargoHomeDefault, CargoHomeInCwd}

\* Package::root(): <CARGO_HOME>/registry/src/<name>-<version>
PkgRoot(home, name, v) ==
    home \o << <<"registry">>, <<"src">>, <<NameDashMajor(name, v[1]), v[2], v[3]>> >>

\* Path::starts_with: base is a prefix of the components of path
starts_with(path, base) ==
    /\ Len(base) <= Len(path)
    /\ SubSeq(path, 1, Len(base)) = base

\* Path::with_extension: the part after the last dot of the last component is
\* replaced (a name without extension, or a dot-file without one, gets it added)
with_extension(path, ext) ==
    LET file == path[Len(path)]
        stem == IF Len(file) = 1 \/ (Len(file) = 2 /\ file[1] = "")
                THEN file ELSE SubSeq(file, 1, Len(file) - 1)
    IN  SubSeq(path, 1, Len(path) - 1) \o <<stem \o ext>>

\* the extension "crev.reviewed", main.rs:195
CrevReviewed == <<"crev", "reviewed">>

\* the tree the distribution channel serves for a version of a crate; the
\* second version is published with its lock file
ServedTree(name, v) ==
    IF v = V100 THEN Unpacked("b1")
    ELSE [Unpacked("b2") EXCEPT !["Cargo.lock"] = "b1"]

PkgRoots == {PkgRoot(h, n, v) : h \in CargoHomes, n \in CrateNames, v \in Versions}
AllPaths == PkgRoots \cup {with_extension(p, CrevReviewed) : p \in PkgRoots}

----------------------------------------------------------------------------
(* The collaborators of DepComputer *)

Ids == {"id1"}
Owners == {"alice", "bob"}
OwnerLists == {<<>>, <<"alice">>, <<"bob">>, <<"alice", "bob">>}

\* the crates of the batch, in the order the driver walks them
BatchCrates == <<"sample">>

\* ProofDB: what the database answers for one crate.  The database is loaded
\* once (computer.rs:53) and its answers do not change during the run.
DbEntries ==
    {e \in [trusted_reviewers : SUBSET Ids,
            conflicting_review : BOOLEAN,
            version_reviews : 0..MaxReviews,
            total_reviews : 0..MaxReviews,
            issues_from_trusted : 0..MaxIssues,
            issues_from_all : 0..MaxIssues,
            latest_trusted_version : {None, Some(V100)}] :
        /\ e.version_reviews <= e.total_reviews
        /\ e.issues_from_trusted <= e.issues_from_all}

\* is_digest_clean of crate::shared, called at computer.rs:91
is_digest_clean(d, name) == ~d[name].conflicting_review

\* ProofDB::verify_package_digest, called at computer.rs:94
verify_package_digest(d, name, ts, req) ==
    IF Cardinality(d[name].trusted_reviewers \cap ts) >= req.redundancy
    THEN "Verified" ELSE "Unknown"

\* computer.rs:95 with every result taken as verified
is_verified_always(result) == TRUE

\* VerificationStatus::is_verified, computer.rs:95
is_verified(result) == result = "Verified"

\* ProofDB::calculate_trust_set (computer.rs:54-58): the default TrustSet is empty
calculate_trust_set(for_id) == IF IsSome(for_id) THEN {Unwrap(for_id)} ELSE {}

\* Result<T>: Err carries no value of the model
Err == [ok |-> FALSE]
OkVal(x) == [ok |-> TRUE, val |-> x]

\* crates_io::Client::get_downloads_count (computer.rs:118): Err, or the two
\* counters the registry reports
DownloadsAnswers == {Err} \cup {OkVal(c) : c \in (0..MaxDownloads) \X (0..MaxDownloads)}

\* crates_io::Client::get_owners (computer.rs:123)
OwnersAnswers == {Err} \cup {OkVal(l) : l \in OwnerLists}

\* tokei::get_rust_line_count (computer.rs:164)
LineCountAnswers == {Err, OkVal(10)}

\* computer.rs:126-129 with the filter left out: every owner is counted
CountIn_unfiltered(seq, set) == Len(seq)

\* the number of elements of seq that satisfy membership in set
CountIn(seq, set) == Cardinality({i \in 1..Len(seq) : seq[i] \in set})

----------------------------------------------------------------------------
(* DepComputer: state *)

Pending == [tag |-> "Pending"]
InProgress == [tag |-> "InProgress"]
Skipped == [tag |-> "Skipped"]
Failed == [tag |-> "Failed"]
Ok(dep) == [tag |-> "Ok", dep |-> dep]

\* Durations::default, computer.rs:20-28
DurationsDefault == [digest |-> 0, loc |-> 0, latest_trusted |-> 0, issues |-> 0, total |-> 0]

\* try_compute has not returned yet
NoRet == [none |-> TRUE]

\* no compute call is running
IdleFrame == [pc |-> "idle", row |-> 0, start |-> 0, digest |-> None,
              unclean_digest |-> FALSE, result |-> "Unknown", verified |-> FALSE,
              reviews |-> None, downloads |-> None, owners_list |-> None,
              owners |-> None,
              issues |-> None, loc |-> None, ret |-> NoRet]

\* DepRow as the driver hands it to compute
NewRow(name) == [id |-> [name |-> name, version |-> V100],
                 root |-> PkgRoot(CargoHomeDefault, name, V100),
                 has_custom_build |-> FALSE,
                 computation_status |-> Pending]

\* the DepRow of a version of a crate unpacked in the default CARGO_HOME
NewRowAt(name, v) == [id |-> [name |-> name, version |-> v],
                      root |-> PkgRoot(CargoHomeDefault, name, v),
                      has_custom_build |-> FALSE,
                      computation_status |-> Pending]

\* DepComputer::new, computer.rs:49-76
DepComputerNew(database, for_id, sv, sko) ==
    /\ db = database
    /\ trust_set = calculate_trust_set(for_id)
    /\ ignore_list = cargo_min_ignore_list
    /\ known_owners = {"alice"}
    /\ requirements = [trust_level |-> "Low", redundancy |-> 1]
    /\ skip_verified = sv
    /\ skip_known_owners = sko
    /\ durations = DurationsDefault

\* sanitize_name is not called
IdleSanitize == [pc |-> "idle", s |-> <<>>, out |-> <<>>]

\* review_crate is not running
IdleReview == [pc |-> "idle", name |-> "sample", version |-> None, independent |-> FALSE,
               cargo_home |-> CargoHomeDefault, resolved |-> {},
               pkg_dir |-> None, crate_version |-> None, reviewed_pkg_dir |-> None,
               pkg_dir_second |-> None, crate_version_second |-> None,
               fetched |-> None, digest_clean |-> None, digest_reviewed |-> None,
               proof |-> None, outcome |-> "none", at |-> "none", fs0 |-> None]
\* the `verify deps` command is not running
IdleVerifyDeps == [pc |-> "idle", next |-> 0, printed |-> <<>>, result |-> "none",
                   at |-> "none"]

Init ==
    /\ \E database \in [{BatchCrates[i] : i \in 1..Len(BatchCrates)} -> DbEntries],
          for_id \in {None, Some("id1")}, sv \in BOOLEAN, sko \in BOOLEAN :
            DepComputerNew(database, for_id, sv, sko)
    /\ rows = [i \in 1..Len(BatchCrates) |-> NewRow(BatchCrates[i])]
    /\ frame = IdleFrame
    /\ calls = <<>>
    /\ now = 0
    /\ fs = [p \in AllPaths |->
                IF \E i \in 1..Len(BatchCrates) : p = PkgRoot(CargoHomeDefault, BatchCrates[i], V100)
                THEN Dir(ServedTree(BatchCrates[1], V100)) ELSE NoDir]
    /\ rc = IdleReview
    /\ proofs = {}
    /\ vd = IdleVerifyDeps
    /\ sn = IdleSanitize

----------------------------------------------------------------------------
(* DepComputer::compute and DepComputer::try_compute, one action per stage *)

CurRow == rows[frame.row]
CurName == CurRow.id.name

SetStatus(i, st) == rows' = [rows EXCEPT ![i].computation_status = st]

\* the names of the collaborator calls recorded in `calls`
DownloadStage == "get_downloads_count"
OwnersStage == "get_owners"

\* computer.rs:98 with the flag left out
skip_for_verified_always(verified, flag) == verified

\* computer.rs:98: the condition of the skip_verified exit
skip_for_verified(verified, flag) == verified /\ flag

\* computer.rs:130 with the flag left out
skip_for_known_owners_always(known_owners_count, flag) == known_owners_count > 0

\* computer.rs:130: the condition of the skip_known_owners exit
skip_for_known_owners(known_owners_count, flag) == known_owners_count > 0 /\ flag

\* computer.rs:203 left out: the row is not marked InProgress
compute_enter_keeps_pending ==
    /\ frame.pc = "idle"
    /\ \E i \in 1..Len(rows) :
        /\ rows[i].computation_status = Pending
        /\ \A j \in 1..(i - 1) : rows[j].computation_status # Pending
        /\ rows' = rows
        /\ frame' = [IdleFrame EXCEPT !.pc = "get_dir_digest", !.row = i, !.start = now]
    /\ calls' = <<>>
    /\ UNCHANGED <<dc_config, durations, now, fs, rc, proofs, vd, sn>>

\* compute entry, computer.rs:203-204, then try_compute's timer, computer.rs:82:
\* the driver hands the next row that is still Pending
compute_enter ==
    /\ frame.pc = "idle"
    /\ \E i \in 1..Len(rows) :
        /\ rows[i].computation_status = Pending
        /\ \A j \in 1..(i - 1) : rows[j].computation_status # Pending
        /\ SetStatus(i, InProgress)
        /\ frame' = [IdleFrame EXCEPT !.pc = "get_dir_digest", !.row = i, !.start = now]
    /\ calls' = <<>>
    /\ UNCHANGED <<dc_config, durations, now, fs, rc, proofs, vd, sn>>

\* computer.rs:84-88: the content digest of the crate root; `?` returns the
\* error.  The call takes its time whether it succeeds or fails.
try_get_dir_digest ==
    /\ frame.pc = "get_dir_digest"
    /\ calls' = Append(calls, "get_dir_digest")
    /\ now' = now + 1
    /\ \E io_ok \in BOOLEAN :
        IF io_ok /\ fs[CurRow.root] # NoDir
        THEN frame' = [frame EXCEPT
                    !.digest = Some(get_dir_digest(TreeAt(fs, CurRow.root), ignore_list)),
                    !.pc = "verify_package_digest"]
        ELSE frame' = [frame EXCEPT !.ret = Err, !.pc = "return"]
    /\ UNCHANGED <<dc_config, durations, rows, fs, rc, proofs, vd, sn>>

\* computer.rs:90-101 with an unclean digest returned as an error
try_verify_package_digest_fails_unclean ==
    /\ frame.pc = "verify_package_digest"
    /\ calls' = calls \o <<"is_digest_clean", "verify_package_digest">>
    /\ LET start_digest == now
           unclean_digest == ~is_digest_clean(db, CurName)
           result == verify_package_digest(db, CurName, trust_set, requirements)
           verified == is_verified(result)
           after == now + 2
       IN  /\ now' = after
           /\ IF unclean_digest
              THEN /\ durations' = durations
                   /\ frame' = [frame EXCEPT !.unclean_digest = unclean_digest,
                          !.ret = Err, !.pc = "return"]
              ELSE IF skip_for_verified(verified, skip_verified)
              THEN /\ durations' = [durations EXCEPT
                          !.digest = @ + (after - start_digest),
                          !.total = @ + (after - frame.start)]
                   /\ frame' = [frame EXCEPT !.unclean_digest = unclean_digest,
                          !.result = result, !.verified = verified,
                          !.ret = OkVal(None), !.pc = "return"]
              ELSE /\ durations' = [durations EXCEPT !.digest = @ + (after - start_digest)]
                   /\ frame' = [frame EXCEPT !.unclean_digest = unclean_digest,
                          !.result = result, !.verified = verified,
                          !.pc = "get_package_review_count"]
    /\ UNCHANGED <<dc_config, rows, fs, rc, proofs, vd, sn>>

\* computer.rs:90-101: unclean digest, digest verification, the skip_verified exit
try_verify_package_digest ==
    /\ frame.pc = "verify_package_digest"
    /\ calls' = calls \o <<"is_digest_clean", "verify_package_digest">>
    /\ LET start_digest == now
           unclean_digest == ~is_digest_clean(db, CurName)
           result == verify_package_digest(db, CurName, trust_set, requirements)
           verified == is_verified(result)
           after == now + 2
       IN  /\ now' = after
           /\ IF skip_for_verified(verified, skip_verified)
              THEN /\ durations' = [durations EXCEPT
                          !.digest = @ + (after - start_digest),
                          !.total = @ + (after - frame.start)]
                   /\ frame' = [frame EXCEPT !.unclean_digest = unclean_digest,
                          !.result = result, !.verified = verified,
                          !.ret = OkVal(None), !.pc = "return"]
              ELSE /\ durations' = [durations EXCEPT !.digest = @ + (after - start_digest)]
                   /\ frame' = [frame EXCEPT !.unclean_digest = unclean_digest,
                          !.result = result, !.verified = verified,
                          !.pc = "get_package_review_count"]
    /\ UNCHANGED <<dc_config, rows, fs, rc, proofs, vd, sn>>

\* computer.rs:103-116 followed by the owners call: the download counts of
\* computer.rs:118-121 are left out
try_get_package_review_count_then_owners ==
    /\ frame.pc = "get_package_review_count"
    /\ calls' = calls \o <<"get_package_review_count", "get_package_review_count">>
    /\ frame' = [frame EXCEPT
            !.reviews = Some([version |-> db[CurName].version_reviews,
                              total |-> db[CurName].total_reviews]),
            !.pc = "get_owners"]
    /\ now' = now + 1
    /\ UNCHANGED <<dc_config, durations, rows, fs, rc, proofs, vd, sn>>

\* computer.rs:103-116: the review counts of this version and of the crate
try_get_package_review_count ==
    /\ frame.pc = "get_package_review_count"
    /\ calls' = calls \o <<"get_package_review_count", "get_package_review_count">>
    /\ frame' = [frame EXCEPT
            !.reviews = Some([version |-> db[CurName].version_reviews,
                              total |-> db[CurName].total_reviews]),
            !.pc = "get_downloads_count"]
    /\ now' = now + 1
    /\ UNCHANGED <<dc_config, durations, rows, fs, rc, proofs, vd, sn>>

\* computer.rs:118-121 with the call issued again after an error
try_get_downloads_count_retries ==
    /\ frame.pc = "get_downloads_count"
    /\ calls' = Append(calls, DownloadStage)
    /\ \E answer \in DownloadsAnswers :
        frame' = IF answer.ok
                 THEN [frame EXCEPT
                        !.downloads = Some([version |-> answer.val[1], total |-> answer.val[2]]),
                        !.pc = "get_owners"]
                 ELSE frame
    /\ now' = now + 1
    /\ UNCHANGED <<dc_config, durations, rows, fs, rc, proofs, vd, sn>>

\* computer.rs:118-121: the download counts; an error leaves the field None
try_get_downloads_count ==
    /\ frame.pc = "get_downloads_count"
    /\ calls' = Append(calls, DownloadStage)
    /\ \E answer \in DownloadsAnswers :
        frame' = [frame EXCEPT
            !.downloads = IF answer.ok
                          THEN Some([version |-> answer.val[1], total |-> answer.val[2]])
                          ELSE None,
            !.pc = "get_owners"]
    /\ now' = now + 1
    /\ UNCHANGED <<dc_config, durations, rows, fs, rc, proofs, vd, sn>>

\* computer.rs:123-140: the owners, the skip_known_owners exit; an error leaves
\* the field None
try_get_owners ==
    /\ frame.pc = "get_owners"
    /\ calls' = Append(calls, OwnersStage)
    /\ now' = now + 1
    /\ \E answer \in OwnersAnswers :
        IF answer.ok
        THEN LET total_owners_count == Len(answer.val)
                 known_owners_count == CountIn(answer.val, known_owners)
             IN  IF skip_for_known_owners(known_owners_count, skip_known_owners)
                 THEN /\ durations' = [durations EXCEPT !.total = @ + (now' - frame.start)]
                      /\ frame' = [frame EXCEPT
                             !.owners_list = Some(answer.val),
                             !.ret = OkVal(None), !.pc = "return"]
                 ELSE /\ durations' = durations
                      /\ frame' = [frame EXCEPT
                             !.owners_list = Some(answer.val),
                             !.owners = Some([trusted |-> known_owners_count,
                                              total |-> total_owners_count]),
                             !.pc = "get_open_issues"]
        ELSE /\ durations' = durations
             /\ frame' = [frame EXCEPT !.owners = None, !.pc = "get_open_issues"]
    /\ UNCHANGED <<dc_config, rows, fs, rc, proofs, vd, sn>>

\* computer.rs:142-161 with the level of the second query stored in the
\* requirements instead of passed to the query
try_get_open_issues_lowers_trust_level ==
    /\ frame.pc = "get_open_issues"
    /\ calls' = calls \o <<"get_open_issues_for_version", "get_open_issues_for_version">>
    /\ LET start_issues == now
       IN  /\ now' = now + 2
           /\ durations' = [durations EXCEPT !.issues = @ + (now' - start_issues)]
    /\ frame' = [frame EXCEPT
            !.issues = Some([trusted |-> db[CurName].issues_from_trusted,
                             total |-> db[CurName].issues_from_all]),
            !.pc = "get_rust_line_count"]
    /\ requirements' = [requirements EXCEPT !.trust_level = "None"]
    /\ UNCHANGED <<db, trust_set, ignore_list, known_owners, skip_verified,
                   skip_known_owners, rows, fs, rc, proofs, vd, sn>>

\* computer.rs:142-161: the open issues reported by trusted ids and by anyone
try_get_open_issues ==
    /\ frame.pc = "get_open_issues"
    /\ calls' = calls \o <<"get_open_issues_for_version", "get_open_issues_for_version">>
    /\ LET start_issues == now
       IN  /\ now' = now + 2
           /\ durations' = [durations EXCEPT !.issues = @ + (now' - start_issues)]
    /\ frame' = [frame EXCEPT
            !.issues = Some([trusted |-> db[CurName].issues_from_trusted,
                             total |-> db[CurName].issues_from_all]),
            !.pc = "get_rust_line_count"]
    /\ UNCHANGED <<dc_config, rows, fs, rc, proofs, vd, sn>>

\* computer.rs:163-165 with `?` in place of `.ok()`: the error is returned
try_get_rust_line_count_propagates ==
    /\ frame.pc = "get_rust_line_count"
    /\ calls' = Append(calls, "get_rust_line_count")
    /\ LET start_loc == now
       IN  /\ now' = now + 1
           /\ durations' = [durations EXCEPT !.loc = @ + (now' - start_loc)]
    /\ \E answer \in LineCountAnswers :
        frame' = IF answer.ok
                 THEN [frame EXCEPT !.loc = Some(answer.val),
                                    !.pc = "find_latest_trusted_version"]
                 ELSE [frame EXCEPT !.ret = Err, !.pc = "return"]
    /\ UNCHANGED <<dc_config, rows, fs, rc, proofs, vd, sn>>

\* computer.rs:163-165: the line count, `.ok()` turns an error into None
try_get_rust_line_count ==
    /\ frame.pc = "get_rust_line_count"
    /\ calls' = Append(calls, "get_rust_line_count")
    /\ LET start_loc == now
       IN  /\ now' = now + 1
           /\ durations' = [durations EXCEPT !.loc = @ + (now' - start_loc)]
    /\ \E answer \in LineCountAnswers :
        frame' = [frame EXCEPT
            !.loc = IF answer.ok THEN Some(answer.val) ELSE None,
            !.pc = "find_latest_trusted_version"]
    /\ UNCHANGED <<dc_config, rows, fs, rc, proofs, vd, sn>>

\* the Dep assembled at computer.rs:182-196
MakeDep(f, row, latest_trusted_version) ==
    [digest |-> Unwrap(f.digest),
     name |-> row.id.name,
     version |-> row.id.version,
     latest_trusted_version |-> latest_trusted_version,
     trust |-> f.result,
     reviews |-> Unwrap(f.reviews),
     downloads |-> f.downloads,
     owners |-> f.owners,
     issues |-> Unwrap(f.issues),
     loc |-> f.loc,
     has_custom_build |-> row.has_custom_build,
     unclean_digest |-> f.unclean_digest,
     verified |-> f.verified]

\* computer.rs:172-196: the latest trusted version, the total, Ok(Some(dep))
try_find_latest_trusted_version ==
    /\ frame.pc = "find_latest_trusted_version"
    /\ calls' = Append(calls, "find_latest_trusted_version")
    /\ LET start_latest_trusted == now
       IN  /\ now' = now + 1
           /\ durations' = [durations EXCEPT
                  !.latest_trusted = @ + (now' - start_latest_trusted),
                  !.total = @ + (now' - frame.start)]
    /\ frame' = [frame EXCEPT
            !.ret = OkVal(Some(MakeDep(frame, CurRow, db[CurName].latest_trusted_version))),
            !.pc = "return"]
    /\ UNCHANGED <<dc_config, rows, fs, rc, proofs, vd, sn>>

\* the status compute stores for what try_compute returned, computer.rs:204-215
StatusOf(ret) ==
    IF ~ret.ok THEN Failed
    ELSE IF IsSome(ret.val) THEN Ok(Unwrap(ret.val))
    ELSE Skipped

\* computer.rs:204-215 with the match left out: the status is not stored
compute_match_drops_status ==
    /\ frame.pc = "return"
    /\ frame' = [frame EXCEPT !.pc = "idle"]
    /\ UNCHANGED <<dc_config, durations, rows, calls, now, fs, rc, proofs, vd, sn>>

\* computer.rs:204-215: compute stores the status and returns to the driver
compute_match ==
    /\ frame.pc = "return"
    /\ SetStatus(frame.row, StatusOf(frame.ret))
    /\ frame' = [frame EXCEPT !.pc = "idle"]
    /\ UNCHANGED <<dc_config, durations, calls, now, fs, rc, proofs, vd, sn>>

Next ==
    \/ compute_enter
    \/ try_get_dir_digest
    \/ try_verify_package_digest
    \/ try_get_package_review_count
    \/ try_get_downloads_count
    \/ try_get_owners
    \/ try_get_open_issues
    \/ try_get_rust_line_count
    \/ try_find_latest_trusted_version
    \/ compute_match

Spec == Init /\ [][Next]_vars

\* the steps of a running compute call: try_compute is straight-line code on
\* one thread, so once a collaborator call has returned the next statement runs
TryComputeSteps ==
    \/ try_get_dir_digest
    \/ try_verify_package_digest
    \/ try_get_package_review_count
    \/ try_get_downloads_count
    \/ try_get_owners
    \/ try_get_open_issues
    \/ try_get_rust_line_count
    \/ try_find_latest_trusted_version
    \/ compute_match

\* the batches over a database without open issues and without a trusted
\* version: both answers are only copied into the record
InitFair ==
    /\ Init
    /\ \A n \in DOMAIN db :
            /\ db[n].issues_from_all = 0
            /\ db[n].latest_trusted_version = None

\* these batches under the assumption that every collaborator call returns
SpecFair == InitFair /\ [][Next]_vars /\ WF_vars(TryComputeSteps)

----------------------------------------------------------------------------
(* review_crate, main.rs:180-245, one action per step.  The calls into the *)
(* resolver, the digest and the proof store can fail; std::fs::rename and  *)
(* std::fs::remove_dir_all act on directories the step has just seen and   *)
(* are taken to succeed.                                                   *)

\* the local copies a registry directory can hold before a review: the tree as
\* served, with a lock file written or rewritten by a build, with edited
\* sources, or with a source file renamed
LocalTrees(name, v) ==
    {ServedTree(name, v),
     [ServedTree(name, v) EXCEPT !["Cargo.lock"] = IF @ = "b1" THEN "b2" ELSE "b1"],
     [ServedTree(name, v) EXCEPT !["lib.rs"] = IF @ = "b1" THEN "b2" ELSE "b1"],
     [ServedTree(name, v) EXCEPT !["lib.rs"] = NoFile,
                                 !["main.rs"] = ServedTree(name, v)["lib.rs"]]}

\* source.download / PackageSet::get_one (main.rs:80-82, 126): the versions vs
\* of the crate that have no directory are unpacked from the channel
Fetch(filesystem, home, name, vs) ==
    [p \in DOMAIN filesystem |->
        IF filesystem[p] = NoDir /\ \E v \in vs : p = PkgRoot(home, name, v)
        THEN Dir(ServedTree(name, CHOOSE v \in vs : p = PkgRoot(home, name, v)))
        ELSE filesystem[p]]

\* Repo::find_idependent_crate_dir, main.rs:90-129: the version asked for, or
\* the highest version the index lists at the time of the call; the package is
\* downloaded.  The result is a set of <<answer, filesystem>> pairs.
find_idependent_crate_dir(filesystem, home, name, version) ==
    {<<OkVal(Some(<<PkgRoot(home, name, v), v>>)), Fetch(filesystem, home, name, {v})>> :
        v \in IF IsSome(version) THEN {Unwrap(version)} ELSE Versions}

\* Repo::find_dependency_dir, main.rs:131-152, over
\* for_every_non_local_dependency_dir, main.rs:55-88: every resolved package
\* without a directory is downloaded, the matching ones are collected
find_dependency_dir(filesystem, home, name, version, resolved) ==
    LET ret == {v \in resolved : ~IsSome(version) \/ version = Some(v)}
        fetched == Fetch(filesystem, home, name, resolved)
    IN  IF ret = {} THEN {<<OkVal(None), fetched>>}
        ELSE IF Cardinality(ret) = 1
        THEN {<<OkVal(Some(<<PkgRoot(home, name, v), v>>)), fetched>> : v \in ret}
        ELSE {<<Err, fetched>>}

\* Repo::find_crate, main.rs:154-166; any call into cargo can fail as well
find_crate(filesystem, home, name, version, independent, resolved) ==
    LET found == IF independent
                 THEN find_idependent_crate_dir(filesystem, home, name, version)
                 ELSE find_dependency_dir(filesystem, home, name, version, resolved)
    IN  {<<Err, filesystem>>} \cup
        {<<IF r[1].ok /\ IsSome(r[1].val) THEN OkVal(Unwrap(r[1].val)) ELSE Err, r[2]>> :
            r \in found}

\* review_crate returns (or panics) at the step it is in
RcEnd(outcome) == [rc EXCEPT !.pc = "done", !.outcome = outcome, !.at = rc.pc]

InitReview ==
    /\ DepComputerNew([c \in {} |-> 0], None, FALSE, FALSE)
    /\ rows = <<>>
    /\ frame = IdleFrame
    /\ calls = <<>>
    /\ now = 0
    /\ \E home \in CargoHomes, version \in {None} \cup {Some(v) : v \in Versions},
          independent \in BOOLEAN, resolved \in (SUBSET Versions) \ {{}} :
        /\ \E t100 \in {NoDir} \cup {Dir(t) : t \in LocalTrees("sample", V100)},
              t101 \in {NoDir} \cup {Dir(t) : t \in LocalTrees("sample", V101)},
              stale \in {NoDir, Dir(ServedTree("sample", V100))} :
            fs = [p \in AllPaths |->
                    IF p = PkgRoot(home, "sample", V100) THEN t100
                    ELSE IF p = PkgRoot(home, "sample", V101) THEN t101
                    ELSE IF p = with_extension(PkgRoot(home, "sample", V100), CrevReviewed)
                    THEN stale ELSE NoDir]
        /\ rc = [IdleReview EXCEPT !.pc = "find_crate", !.cargo_home = home,
                    !.version = version, !.independent = independent,
                    !.resolved = resolved, !.outcome = "running", !.fs0 = Some(fs)]
    /\ proofs = {}
    /\ vd = IdleVerifyDeps
    /\ sn = IdleSanitize

dc_all == <<dc_config, durations, rows, frame, calls, now>>

\* main.rs:185-187: the first lookup of the crate
review_find_crate ==
    /\ rc.pc = "find_crate"
    /\ \E r \in find_crate(fs, rc.cargo_home, rc.name, rc.version, rc.independent, rc.resolved) :
        /\ fs' = r[2]
        /\ rc' = IF r[1].ok
                 THEN [rc EXCEPT !.pkg_dir = Some(r[1].val[1]),
                                 !.crate_version = Some(r[1].val[2]),
                                 !.pc = "assert_cwd"]
                 ELSE RcEnd("Err")
    /\ UNCHANGED <<dc_all, proofs, vd, sn>>

\* main.rs:189-190: the assertion on the working directory, Local::auto_open
review_assert_cwd ==
    /\ rc.pc = "assert_cwd"
    /\ IF starts_with(Unwrap(rc.pkg_dir), current_dir)
       THEN rc' = RcEnd("Panic")
       ELSE \E local_ok \in BOOLEAN :
                rc' = IF local_ok THEN [rc EXCEPT !.pc = "remove_stale"] ELSE RcEnd("Err")
    /\ UNCHANGED <<dc_all, fs, proofs, vd, sn>>

\* main.rs:195-198: a directory left at the quarantine path is removed
review_remove_stale ==
    /\ rc.pc = "remove_stale"
    /\ LET reviewed_pkg_dir == with_extension(Unwrap(rc.pkg_dir), CrevReviewed)
       IN  /\ rc' = [rc EXCEPT !.reviewed_pkg_dir = Some(reviewed_pkg_dir), !.pc = "rename"]
           /\ fs' = IF fs[reviewed_pkg_dir] # NoDir
                    THEN [fs EXCEPT ![reviewed_pkg_dir] = NoDir]
                    ELSE fs
    /\ UNCHANGED <<dc_all, proofs, vd, sn>>

\* main.rs:199 as a copy: the reviewed directory stays where it was
review_rename_copies ==
    /\ rc.pc = "rename"
    /\ fs' = [fs EXCEPT ![Unwrap(rc.reviewed_pkg_dir)] = fs[Unwrap(rc.pkg_dir)]]
    /\ rc' = [rc EXCEPT !.pc = "find_crate_second"]
    /\ UNCHANGED <<dc_all, proofs, vd, sn>>

\* main.rs:199: the reviewed directory is moved to the quarantine path
review_rename ==
    /\ rc.pc = "rename"
    /\ fs' = [fs EXCEPT ![Unwrap(rc.reviewed_pkg_dir)] = fs[Unwrap(rc.pkg_dir)],
                        ![Unwrap(rc.pkg_dir)] = NoDir]
    /\ rc' = [rc EXCEPT !.pc = "find_crate_second"]
    /\ UNCHANGED <<dc_all, proofs, vd, sn>>

\* main.rs:200-201: the second lookup, which downloads the crate again
review_find_crate_second ==
    /\ rc.pc = "find_crate_second"
    /\ \E r \in find_crate(fs, rc.cargo_home, rc.name, rc.version, rc.independent, rc.resolved) :
        /\ fs' = r[2]
        /\ rc' = IF r[1].ok
                 THEN [rc EXCEPT !.pkg_dir_second = Some(r[1].val[1]),
                                 !.crate_version_second = Some(r[1].val[2]),
                                 !.fetched = IF fs[r[1].val[1]] = NoDir
                                             THEN r[2][r[1].val[1]] ELSE None,
                                 !.pc = "assert_eq"]
                 ELSE RcEnd("Err")
    /\ UNCHANGED <<dc_all, proofs, vd, sn>>

\* main.rs:202-203 with the two assertions left out
review_assert_eq_unchecked ==
    /\ rc.pc = "assert_eq"
    /\ rc' = [rc EXCEPT !.pc = "digest_clean"]
    /\ UNCHANGED <<dc_all, fs, proofs, vd, sn>>

\* main.rs:202-203: both lookups must name the same directory and version
review_assert_eq ==
    /\ rc.pc = "assert_eq"
    /\ rc' = IF rc.pkg_dir = rc.pkg_dir_second /\ rc.crate_version = rc.crate_version_second
             THEN [rc EXCEPT !.pc = "digest_clean"]
             ELSE RcEnd("Panic")
    /\ UNCHANGED <<dc_all, fs, proofs, vd, sn>>

\* main.rs:205: the digest of the fresh directory
review_digest_clean ==
    /\ rc.pc = "digest_clean"
    /\ \E io_ok \in BOOLEAN :
        rc' = IF io_ok /\ fs[Unwrap(rc.pkg_dir)] # NoDir
              THEN [rc EXCEPT
                      !.digest_clean = Some(get_recursive_digest_for_dir(
                                          TreeAt(fs, Unwrap(rc.pkg_dir)), cargo_ignore_list)),
                      !.pc = "digest_reviewed"]
              ELSE RcEnd("Err")
    /\ UNCHANGED <<dc_all, fs, proofs, vd, sn>>

\* main.rs:206-207: the digest of the quarantined directory
review_digest_reviewed ==
    /\ rc.pc = "digest_reviewed"
    /\ \E io_ok \in BOOLEAN :
        rc' = IF io_ok /\ fs[Unwrap(rc.reviewed_pkg_dir)] # NoDir
              THEN [rc EXCEPT
                      !.digest_reviewed = Some(get_recursive_digest_for_dir(
                                          TreeAt(fs, Unwrap(rc.reviewed_pkg_dir)), cargo_ignore_list)),
                      !.pc = "compare"]
              ELSE RcEnd("Err")
    /\ UNCHANGED <<dc_all, fs, proofs, vd, sn>>

\* the comparison of main.rs:209 left out
digests_differ_never(digest_clean, digest_reviewed) == FALSE

\* main.rs:209: the two digests differ
digests_differ(digest_clean, digest_reviewed) == digest_clean # digest_reviewed

\* main.rs:209-217 with the quarantined directory removed before bail!
review_compare_cleans_up ==
    /\ rc.pc = "compare"
    /\ IF digests_differ(rc.digest_clean, rc.digest_reviewed)
       THEN /\ rc' = RcEnd("DigestMismatch")
            /\ fs' = [fs EXCEPT ![Unwrap(rc.reviewed_pkg_dir)] = NoDir]
       ELSE /\ rc' = [rc EXCEPT !.pc = "remove_reviewed"]
            /\ fs' = fs
    /\ UNCHANGED <<dc_all, proofs, vd, sn>>

\* main.rs:209-217: bail! when the digests differ
review_compare ==
    /\ rc.pc = "compare"
    /\ rc' = IF digests_differ(rc.digest_clean, rc.digest_reviewed)
             THEN RcEnd("DigestMismatch")
             ELSE [rc EXCEPT !.pc = "remove_reviewed"]
    /\ UNCHANGED <<dc_all, fs, proofs, vd, sn>>

\* main.rs:218 without the removal
review_remove_reviewed_kept ==
    /\ rc.pc = "remove_reviewed"
    /\ rc' = [rc EXCEPT !.pc = "sign"]
    /\ UNCHANGED <<dc_all, fs, proofs, vd, sn>>

\* main.rs:218: the quarantined directory is removed
review_remove_reviewed ==
    /\ rc.pc = "remove_reviewed"
    /\ fs' = [fs EXCEPT ![Unwrap(rc.reviewed_pkg_dir)] = NoDir]
    /\ rc' = [rc EXCEPT !.pc = "sign"]
    /\ UNCHANGED <<dc_all, proofs, vd, sn>>

\* the PackageInfo of main.rs:225-234 with an empty digest vector
PackageInfo_empty_digest(name, version, digest) ==
    [name |-> name, version |-> version, digest |-> {}]

\* the PackageInfo built at main.rs:225-234
PackageInfo(name, version, digest) == [name |-> name, version |-> version, digest |-> digest]

\* main.rs:220-241: passphrase, identity, the review with the digest, the
\* interactive edit and the signature; any of them can fail
review_sign ==
    /\ rc.pc = "sign"
    /\ \E ok \in BOOLEAN :
        rc' = IF ok
              THEN [rc EXCEPT
                      !.proof = Some(PackageInfo(rc.name, Unwrap(rc.crate_version),
                                                 Unwrap(rc.digest_clean))),
                      !.pc = "insert"]
              ELSE RcEnd("Err")
    /\ UNCHANGED <<dc_all, fs, proofs, vd, sn>>

\* main.rs:243-244: the proof is inserted into the local store
review_insert ==
    /\ rc.pc = "insert"
    /\ \E ok \in BOOLEAN :
        IF ok
        THEN /\ proofs' = proofs \cup {Unwrap(rc.proof)}
             /\ rc' = RcEnd("Ok")
        ELSE /\ proofs' = proofs
             /\ rc' = RcEnd("Err")
    /\ UNCHANGED <<dc_all, fs, vd, sn>>

NextReview ==
    \/ review_find_crate
    \/ review_assert_cwd
    \/ review_remove_stale
    \/ review_rename
    \/ review_find_crate_second
    \/ review_assert_eq
    \/ review_digest_clean
    \/ review_digest_reviewed
    \/ review_compare
    \/ review_remove_reviewed
    \/ review_sign
    \/ review_insert

SpecReview == InitReview /\ [][NextReview]_vars

\* A review followed by a verification: review_crate signs the digest of a
\* version of the crate, then a DepComputer of a later `verify deps` run is
\* handed the same directory.
ReviewedEntry ==
    [trusted_reviewers |-> {"id1"}, conflicting_review |-> FALSE,
     version_reviews |-> 1, total_reviews |-> 1,
     issues_from_trusted |-> 0, issues_from_all |-> 0,
     latest_trusted_version |-> None]

InitReviewThenVerify ==
    /\ \E for_id \in {None, Some("id1")} :
            DepComputerNew([c \in {"sample"} |-> ReviewedEntry], for_id, FALSE, FALSE)
    /\ frame = IdleFrame
    /\ calls = <<>>
    /\ now = 0
    /\ \E v \in Versions, independent \in BOOLEAN, resolved \in (SUBSET Versions) \ {{}} :
        /\ rows = <<NewRowAt("sample", v)>>
        /\ \E t100 \in {NoDir} \cup {Dir(t) : t \in LocalTrees("sample", V100)},
              t101 \in {NoDir} \cup {Dir(t) : t \in LocalTrees("sample", V101)} :
            fs = [p \in AllPaths |->
                    IF p = PkgRoot(CargoHomeDefault, "sample", V100) THEN t100
                    ELSE IF p = PkgRoot(CargoHomeDefault, "sample", V101) THEN t101
                    ELSE NoDir]
        /\ rc = [IdleReview EXCEPT !.pc = "find_crate", !.cargo_home = CargoHomeDefault,
                    !.version = Some(v), !.independent = independent,
                    !.resolved = resolved, !.outcome = "running", !.fs0 = Some(fs)]
    /\ proofs = {}
    /\ vd = IdleVerifyDeps
    /\ sn = IdleSanitize

\* the verification starts once the review has been signed and stored
verify_after_review ==
    /\ rc.pc = "done" /\ rc.outcome = "Ok"
    /\ compute_enter

NextReviewThenVerify ==
    \/ NextReview
    \/ verify_after_review
    \/ TryComputeSteps

SpecReviewThenVerify == InitReviewThenVerify /\ [][NextReviewThenVerify]_vars

\* the core as a whole: a process runs a DepComputer batch or one review_crate
InitCore == Init \/ InitReview

NextCore == Next \/ NextReview

SpecCore == InitCore /\ [][NextCore]_vars

----------------------------------------------------------------------------
(* The `verify deps` command of main, main.rs:304-366: the closure is run  *)
(* by Repo::for_every_non_local_dependency_dir, main.rs:55-88, once for    *)
(* every registry package of the workspace.                                *)

\* the packages of the resolved workspace, in the order of the loop
WorkspacePkgs == <<[name |-> "sample", version |-> V100, is_registry |-> TRUE],
                   [name |-> "member", version |-> V100, is_registry |-> FALSE],
                   [name |-> "other", version |-> V100, is_registry |-> TRUE]>>

RegistryPkgNames == {WorkspacePkgs[i].name : i \in {j \in 1..Len(WorkspacePkgs) : WorkspacePkgs[j].is_registry}}

\* ProofDB::verify_digest, called at main.rs:321
verify_digest(d, name, ts) == verify_package_digest(d, name, ts, [redundancy |-> 1])

\* u64::to_string at main.rs:332, and the "err" marker of main.rs:335
to_string(n) == <<"number", n>>
ErrMarker == <<"err">>

\* the database entries the loop reads: the reviewers and the review counts
LoopDbEntries ==
    {e \in DbEntries : /\ ~e.conflicting_review
                       /\ e.issues_from_all = 0
                       /\ e.latest_trusted_version = None}

\* a crate nobody has reviewed
UnreviewedEntry ==
    CHOOSE e \in LoopDbEntries : e.trusted_reviewers = {} /\ e.total_reviews = 0

\* the databases of the loop: any entry for sample, other is not reviewed
LoopDatabases ==
    {[n \in RegistryPkgNames |-> IF n = "sample" THEN e ELSE UnreviewedEntry] :
        e \in LoopDbEntries}

InitVerifyDeps ==
    /\ \E database \in LoopDatabases, for_id \in {None, Some("id1")} :
            DepComputerNew(database, for_id, FALSE, FALSE)
    /\ rows = <<>>
    /\ frame = IdleFrame
    /\ calls = <<>>
    /\ now = 0
    /\ \E other \in {NoDir, Dir(ServedTree("other", V100))} :
        fs = [p \in AllPaths |->
                IF p = PkgRoot(CargoHomeDefault, "sample", V100)
                THEN Dir(ServedTree("sample", V100))
                ELSE IF p = PkgRoot(CargoHomeDefault, "other", V100) THEN other
                ELSE NoDir]
    /\ rc = IdleReview
    /\ proofs = {}
    /\ vd = [IdleVerifyDeps EXCEPT !.pc = "setup", !.result = "running"]
    /\ sn = IdleSanitize

\* the command returns; `at` is the call whose error it returns
VdEnd(result, at) == [vd EXCEPT !.pc = "done", !.result = result, !.at = at]

\* main.rs:306-314 and 59-73: the store, the database, the registry index and
\* the resolved workspace are opened; each `?` returns the error
verify_deps_setup ==
    /\ vd.pc = "setup"
    /\ \E ok \in BOOLEAN :
        vd' = IF ok THEN [vd EXCEPT !.pc = "loop", !.next = 1] ELSE VdEnd("Err", "setup")
    /\ UNCHANGED <<dc_all, fs, rc, proofs, sn>>

\* main.rs:76-78: a package that is not from the registry is passed over
verify_deps_continue ==
    /\ vd.pc = "loop"
    /\ vd.next <= Len(WorkspacePkgs)
    /\ ~WorkspacePkgs[vd.next].is_registry
    /\ vd' = [vd EXCEPT !.next = @ + 1]
    /\ UNCHANGED <<dc_all, fs, rc, proofs, sn>>

\* the line printed at main.rs:339-362
OutputLine(result, version_count, count, version_downloads, total_downloads, digest, path, owners) ==
    [result |-> result, pkg_version_review_count |-> version_count,
     pkg_review_count |-> count, version_downloads |-> version_downloads,
     total_downloads |-> total_downloads, digest |-> digest, path |-> path,
     owners_string |-> owners]

\* main.rs:80-84 and the closure, main.rs:316-365: download when the directory
\* is missing, digest, verification, review counts, download counts, owners,
\* one printed line; each `?` ends the loop and the command with the error
verify_deps_closure ==
    /\ vd.pc = "loop"
    /\ vd.next <= Len(WorkspacePkgs)
    /\ WorkspacePkgs[vd.next].is_registry
    /\ LET pkg == WorkspacePkgs[vd.next]
           path == PkgRoot(CargoHomeDefault, pkg.name, pkg.version)
       IN  \E download_ok \in BOOLEAN, io_ok \in BOOLEAN,
              downloads \in DownloadsAnswers, owners \in OwnersAnswers :
            IF fs[path] = NoDir /\ ~download_ok
            THEN /\ vd' = VdEnd("Err", "download")
                 /\ fs' = fs
            ELSE /\ fs' = Fetch(fs, CargoHomeDefault, pkg.name, {pkg.version})
                 /\ IF ~io_ok THEN vd' = VdEnd("Err", "get_dir_digest")
                    ELSE IF ~owners.ok THEN vd' = VdEnd("Err", OwnersStage)
                    ELSE LET digest == get_dir_digest(TreeAt(fs', path), cargo_ignore_list)
                             result == verify_digest(db, pkg.name, trust_set)
                             line == OutputLine(result,
                                        db[pkg.name].version_reviews,
                                        db[pkg.name].total_reviews,
                                        IF downloads.ok THEN to_string(downloads.val[1]) ELSE ErrMarker,
                                        IF downloads.ok THEN to_string(downloads.val[2]) ELSE ErrMarker,
                                        digest, path, owners.val)
                         IN  vd' = [vd EXCEPT !.printed = Append(@, line), !.next = @ + 1]
    /\ UNCHANGED <<dc_all, rc, proofs, sn>>

\* main.rs:87 and 365-366: the loop is over, the command returns Ok
verify_deps_end ==
    /\ vd.pc = "loop"
    /\ vd.next > Len(WorkspacePkgs)
    /\ vd' = VdEnd("Ok", "end")
    /\ UNCHANGED <<dc_all, fs, rc, proofs, sn>>

NextVerifyDeps ==
    \/ verify_deps_setup
    \/ verify_deps_continue
    \/ verify_deps_closure
    \/ verify_deps_end

SpecVerifyDeps == InitVerifyDeps /\ [][NextVerifyDeps]_vars

----------------------------------------------------------------------------
(* A batch of two dependencies that several workers hand to one            *)
(* DepComputer.  compute takes `&mut self` and `&mut DepRow`               *)
(* (computer.rs:199-201): the borrow is exclusive, so the calls of the     *)
(* workers on the DepComputer exclude each other and run in the order the  *)
(* workers get hold of it, which is any order.                             *)

\* the crates of the batch of the workers
WorkerCrates == <<"sample", "other">>

\* the databases of the batch: each crate is reviewed by id1 or by nobody
WorkerDatabases ==
    [{WorkerCrates[i] : i \in 1..Len(WorkerCrates)} -> {ReviewedEntry, UnreviewedEntry}]

InitBatch ==
    /\ \E database \in WorkerDatabases, sv \in BOOLEAN, sko \in BOOLEAN :
            DepComputerNew(database, Some("id1"), sv, sko)
    /\ rows = [i \in 1..Len(WorkerCrates) |-> NewRow(WorkerCrates[i])]
    /\ frame = IdleFrame
    /\ calls = <<>>
    /\ now = 0
    /\ fs = [p \in AllPaths |->
                IF \E i \in 1..Len(WorkerCrates) :
                        p = PkgRoot(CargoHomeDefault, WorkerCrates[i], V100)
                THEN Dir(ServedTree(WorkerCrates[1], V100)) ELSE NoDir]
    /\ rc = IdleReview
    /\ proofs = {}
    /\ vd = IdleVerifyDeps
    /\ sn = IdleSanitize

\* `self` taken by shared reference: a call may start while another one runs
exclusive_borrow_shared == TRUE

\* `&mut self`, computer.rs:199-201: no other compute call on this DepComputer
\* is running
exclusive_borrow == frame.pc = "idle"

\* compute entry, computer.rs:199-204 and 82: a worker that gets hold of the
\* DepComputer hands it a row that is still Pending
worker_compute_enter ==
    /\ exclusive_borrow
    /\ \E i \in 1..Len(rows) :
        /\ rows[i].computation_status = Pending
        /\ SetStatus(i, InProgress)
        /\ frame' = [IdleFrame EXCEPT !.pc = "get_dir_digest", !.row = i, !.start = now]
    /\ calls' = <<>>
    /\ UNCHANGED <<dc_config, durations, now, fs, rc, proofs, vd, sn>>

NextBatch ==
    \/ worker_compute_enter
    \/ TryComputeSteps

SpecBatch == InitBatch /\ [][NextBatch]_vars

----------------------------------------------------------------------------
(* sanitize_name, crev-common/src/lib.rs:74-95.  A string is the sequence  *)
(* of the code points of its chars; its bytes are their UTF-8 encoding.    *)

\* `s.chars().take(64)`, lib.rs:76
TakeChars == 64

\* `.iter().take(8)`, lib.rs:90
HashBytes == 8

\* the length of a BLAKE2b-256 digest in bytes
DigestLen == 32

Min(a, b) == IF a <= b THEN a ELSE b

\* the chars of the first arm of the match, lib.rs:78
PassedChars == (97..122) \cup (65..90) \cup (48..57) \cup {45, 95}

Underscore == 95
Dash == 45

\* the UTF-8 encoding of a char (code points below 2048)
Utf8Char(ch) == IF ch < 128 THEN <<ch>> ELSE <<192 + (ch \div 64), 128 + (ch % 64)>>

\* str::as_bytes, lib.rs:90
RECURSIVE as_bytes(_)
as_bytes(s) ==
    IF Len(s) = 0 THEN <<>>
    ELSE IF Len(s) = 1 THEN Utf8Char(s[1])
    ELSE LET h == Len(s) \div 2
         IN  as_bytes(SubSeq(s, 1, h)) \o as_bytes(SubSeq(s, h + 1, Len(s)))

\* the mixing of a block of bytes into the k-th byte of the digest, as the
\* pair <<a, b>> of the map acc -> (a * acc + b) % 256; one byte x mixes as
\* acc -> (acc * (2 * k + 31) + x + k) % 256, and blocks compose
RECURSIVE MixBlock(_, _)
MixBlock(bytes, k) ==
    IF Len(bytes) = 0 THEN <<1, 0>>
    ELSE IF Len(bytes) = 1 THEN <<(2 * k + 31) % 256, (bytes[1] + k) % 256>>
    ELSE LET h == Len(bytes) \div 2
             l == MixBlock(SubSeq(bytes, 1, h), k)
             r == MixBlock(SubSeq(bytes, h + 1, Len(bytes)), k)
         IN  <<(l[1] * r[1]) % 256, (r[1] * l[2] + r[2]) % 256>>

\* one byte of the digest: every input byte and its position are mixed in
Mix(bytes, k, acc) == LET f == MixBlock(bytes, k) IN (f[1] * acc + f[2]) % 256

\* blake2b256sum, lib.rs:31-35: a digest of DigestLen bytes of all the bytes of
\* the input.  The mixing function stands for BLAKE2b.
blake2b256sum(bytes) == [k \in 1..DigestLen |-> Mix(bytes, k, (Len(bytes) + 7 * k) % 256)]

\* the digits of `{:02x}`, lib.rs:92: '0'..'9', 'a'..'f'
HexDigits == <<48, 49, 50, 51, 52, 53, 54, 55, 56, 57, 97, 98, 99, 100, 101, 102>>

\* write!(buffer, "{:02x}", b), lib.rs:92
Hex02(b) == <<HexDigits[(b \div 16) + 1], HexDigits[(b % 16) + 1]>>

\* the loop of lib.rs:90-93 over the first n bytes of the digest
RECURSIVE HexOf(_, _)
HexOf(sum, n) == IF n = 0 THEN <<>> ELSE HexOf(sum, n - 1) \o Hex02(sum[n])

\* the loop of lib.rs:76-88
Escaped(s) ==
    [i \in 1..Min(Len(s), TakeChars) |-> IF s[i] \in PassedChars THEN s[i] ELSE Underscore]

\* lib.rs:74-95 with the digest taken of the escaped prefix
sanitize_name_hashes_buffer(s) ==
    Escaped(s) \o <<Dash>> \o HexOf(blake2b256sum(as_bytes(Escaped(s))), HashBytes)

\* sanitize_name, lib.rs:74-95
sanitize_name(s) ==
    Escaped(s) \o <<Dash>> \o HexOf(blake2b256sum(as_bytes(s)), HashBytes)

\* the chars of the names of the model: a, Z, 7, '-', '_', '.', ':', e-acute
NameChars == {97, 90, 55, 45, 95, 46, 58, 233}

Rep(ch, n) == [i \in 1..n |-> ch]

\* names around the limit of TakeChars chars
LongNames ==
    {Rep(97, 63), Rep(97, 64), Rep(97, 65), Rep(97, 66),
     Rep(97, 64) \o <<46>>, Rep(97, 64) \o <<58>>,
     Rep(97, 63) \o <<46>>, Rep(97, 63) \o <<58>>, Rep(97, 63) \o <<95>>,
     Rep(46, 65), Rep(233, 64), Rep(233, 64) \o <<97>>}

Names ==
    LongNames \cup UNION {[1..n -> NameChars] : n \in 0..MaxNameLen}

InitSanitize ==
    /\ DepComputerNew([c \in {} |-> 0], None, FALSE, FALSE)
    /\ rows = <<>>
    /\ frame = IdleFrame
    /\ calls = <<>>
    /\ now = 0
    /\ fs = [p \in AllPaths |-> NoDir]
    /\ rc = IdleReview
    /\ proofs = {}
    /\ vd = IdleVerifyDeps
    /\ \E s \in Names : sn = [IdleSanitize EXCEPT !.pc = "call", !.s = s]

\* one call of sanitize_name
sanitize_name_call ==
    /\ sn.pc = "call"
    /\ sn' = [sn EXCEPT !.out = sanitize_name(sn.s), !.pc = "done"]
    /\ UNCHANGED <<dc_all, fs, rc, proofs, vd>>

NextSanitize == sanitize_name_call

SpecSanitize == InitSanitize /\ [][NextSanitize]_vars

----------------------------------------------------------------------------
(* Properties of sanitize_name (SpecSanitize) *)

LowerHex == (48..57) \cup (97..102)

\* C17: the result is the first 64 chars of the input, each kept when it is
\* in [A-Za-z0-9_-] and replaced by '_' otherwise, then '-', then 16
\* lowercase hex digits; they come from the digest of the whole input, so no
\* other input (one that differs in a replaced char or past the 64th char
\* included) gets the same result.
C17_SanitizedName ==
    sn.pc = "done" =>
        LET n == IF Len(sn.s) <= 64 THEN Len(sn.s) ELSE 64
        IN  /\ Len(sn.out) = n + 1 + 16
            /\ \A i \in 1..n :
                    /\ sn.out[i] \in (97..122) \cup (65..90) \cup (48..57) \cup {45, 95}
                    /\ sn.out[i] = sn.s[i] \/ (sn.out[i] = 95 /\ sn.s[i] # 95)
                    /\ sn.out[i] # sn.s[i] =>
                            sn.s[i] \notin (97..122) \cup (65..90) \cup (48..57) \cup {45, 95}
            /\ sn.out[n + 1] = 45
            /\ \A i \in (n + 2)..(n + 17) : sn.out[i] \in LowerHex
            /\ \A t \in Names : t # sn.s => sanitize_name(t) # sn.out

C17_Witness ==
    /\ sn.pc = "done"
    /\ Len(sn.s) = 65
    /\ sn.s[65] = 46
    /\ SubSeq(sn.out, 1, 64) = Rep(97, 64)

----------------------------------------------------------------------------
(* Properties of review_crate (SpecReview) *)

\* the states of the protocol: the digests were found equal
Verified ==
    \/ rc.pc \in {"remove_reviewed", "sign", "insert"}
    \/ rc.pc = "done" /\ rc.at \in {"sign", "insert"}

\* the run failed with the digest error of main.rs:210-216
Mismatch == rc.pc = "done" /\ rc.outcome = "DigestMismatch"

\* the quarantined directory has been removed after the comparison
QuarantineRemoved ==
    \/ rc.pc \in {"sign", "insert"}
    \/ rc.pc = "done" /\ rc.at \in {"sign", "insert"}

\* the run ended before the comparison was made
AbortedBeforeCompare ==
    /\ rc.pc = "done"
    /\ rc.at \in {"find_crate", "assert_cwd", "find_crate_second", "assert_eq",
                  "digest_clean", "digest_reviewed"}

\* the copy that was at the target path when the first lookup returned: the
\* local copy the run found, or the one the first lookup downloaded
OriginalCopy ==
    IF Unwrap(rc.fs0)[Unwrap(rc.pkg_dir)] # NoDir
    THEN Unwrap(rc.fs0)[Unwrap(rc.pkg_dir)]
    ELSE Dir(ServedTree(rc.name, Unwrap(rc.crate_version)))

\* C1: review_crate ends with the digest error exactly when the digest of the
\* quarantined copy and the digest of the freshly fetched copy differ, and it
\* never goes on to build a proof while they differ.
C1_MismatchIffDigestsDiffer ==
    /\ Mismatch =>
        /\ IsSome(rc.digest_clean) /\ IsSome(rc.digest_reviewed)
        /\ rc.digest_clean # rc.digest_reviewed
        /\ RecursiveDigest(TreeAt(fs, Unwrap(rc.pkg_dir)), cargo_ignore_list)
             # RecursiveDigest(TreeAt(fs, Unwrap(rc.reviewed_pkg_dir)), cargo_ignore_list)
    /\ Verified =>
        /\ IsSome(rc.digest_clean) /\ IsSome(rc.digest_reviewed)
        /\ rc.digest_clean = rc.digest_reviewed
    /\ (IsSome(rc.digest_reviewed) /\ rc.pc # "compare") =>
        (Mismatch <=> rc.digest_clean # rc.digest_reviewed)

C1_Witness ==
    /\ Mismatch
    /\ rc.digest_clean # rc.digest_reviewed

\* C2: a proof that is signed or inserted carries the digest of the copy that
\* the second lookup of this run downloaded, and a run that ended with the
\* digest error or before the comparison has signed and inserted nothing.
C2_ProofDigestIsFetchedDigest ==
    /\ \A p \in proofs \cup (IF IsSome(rc.proof) THEN {Unwrap(rc.proof)} ELSE {}) :
        /\ IsSome(rc.fetched)
        /\ p.digest = RecursiveDigest(Unwrap(rc.fetched), cargo_ignore_list)
        /\ Verified
    /\ (Mismatch \/ AbortedBeforeCompare) => (proofs = {} /\ rc.proof = None)

C2_Witness ==
    /\ rc.outcome = "Ok"
    /\ proofs # {}
    /\ Unwrap(rc.fs0)[Unwrap(rc.pkg_dir)] # NoDir

\* C5 (as claimed): a run on a directory inside the working directory ends
\* with an error value returned to the caller, and the filesystem is as it
\* was when the run began.
C5_PolicyErrorBeforeMutation ==
    (rc.pc = "done" /\ IsSome(rc.pkg_dir) /\ starts_with(Unwrap(rc.pkg_dir), current_dir)) =>
        /\ rc.outcome = "Err"
        /\ fs = Unwrap(rc.fs0)

QuarantinePath == Unwrap(rc.reviewed_pkg_dir)

\* the target path of the run
TargetPath == Unwrap(rc.pkg_dir)

\* C19: when the move is about to be made nothing is left at the quarantine
\* path; the move puts the tree of the target path at the quarantine path and
\* leaves no directory at the target path; the second lookup is made right
\* after the move and only in that state, and the directory it finds was
\* downloaded by it; the quarantined tree stays as it is until the digests
\* have been compared.
C19_QuarantineBeforeRefetch ==
    /\ [](rc.pc = "rename" => fs[QuarantinePath] = NoDir)
    /\ [](rc.pc = "find_crate_second" =>
            /\ fs[QuarantinePath] = OriginalCopy
            /\ fs[TargetPath] = NoDir)
    /\ [](rc.pc \in {"assert_eq", "digest_clean", "digest_reviewed", "compare",
                      "remove_reviewed"} =>
            /\ fs[QuarantinePath] = OriginalCopy
            /\ rc.pkg_dir_second = rc.pkg_dir => IsSome(rc.fetched))
    /\ [][rc.pc = "remove_stale" => (rc'.pc = "rename" /\ fs'[TargetPath] = fs[TargetPath])]_vars
    /\ [][rc.pc = "rename" =>
            /\ rc'.pc = "find_crate_second"
            /\ fs'[QuarantinePath] = fs[TargetPath]
            /\ fs'[TargetPath] = NoDir]_vars
    /\ [][(IsSome(rc'.pkg_dir_second) /\ ~IsSome(rc.pkg_dir_second)) =>
            /\ rc.pc = "find_crate_second"
            /\ fs[TargetPath] = NoDir]_vars

C19_Witness ==
    /\ rc.pc = "find_crate_second"
    /\ Unwrap(rc.fs0)[QuarantinePath] # NoDir
    /\ fs[QuarantinePath] # Unwrap(rc.fs0)[QuarantinePath]
    /\ fs[QuarantinePath] = OriginalCopy
    /\ fs[TargetPath] = NoDir

\* the second lookup has returned another directory or another version than
\* the first
RefetchDiffers ==
    /\ IsSome(rc.pkg_dir_second)
    /\ \/ rc.pkg_dir_second # rc.pkg_dir
       \/ rc.crate_version_second # rc.crate_version

\* C20: when the second lookup returns another directory or version than the
\* first, the run stops at the assertions with a panic: no digest is computed,
\* the run is neither in a state with equal digests nor ends with the digest
\* error, and no proof is signed or stored.
C20_RefetchMismatchAborts ==
    (RefetchDiffers /\ rc.pc # "assert_eq") =>
        /\ rc.pc = "done" /\ rc.at = "assert_eq" /\ rc.outcome = "Panic"
        /\ rc.digest_clean = None /\ rc.digest_reviewed = None
        /\ ~Mismatch /\ ~Verified
        /\ rc.proof = None /\ proofs = {}

C20_Witness ==
    /\ RefetchDiffers
    /\ rc.pc = "done" /\ rc.outcome = "Panic"
    /\ rc.crate_version = Some(V100) /\ rc.crate_version_second = Some(V101)

\* the quarantine path review_crate derives from a target path, main.rs:195
QuarantineOf(path) == with_extension(path, CrevReviewed)

\* C25: the quarantine path of a run is the target path with its extension
\* replaced by crev.reviewed; no other target path has the same quarantine
\* path, and what is at the quarantine path of another target is as it was
\* when the run began.
C25_QuarantineDisjoint ==
    IsSome(rc.reviewed_pkg_dir) =>
        /\ QuarantinePath = QuarantineOf(TargetPath)
        /\ \A p \in PkgRoots \ {TargetPath} :
                /\ QuarantineOf(p) # QuarantinePath
                /\ fs[QuarantineOf(p)] = Unwrap(rc.fs0)[QuarantineOf(p)]

\* the run ended after the move without having found the digests equal: the
\* second lookup failed, the assertions failed, a digest could not be
\* computed, or the digests differ
StoppedAfterMove ==
    /\ rc.pc = "done"
    /\ rc.at \in {"find_crate_second", "assert_eq", "digest_clean", "digest_reviewed",
                  "compare"}

\* the steps of the run that come after the move
AfterMove ==
    rc.pc \in {"find_crate_second", "assert_eq", "digest_clean", "digest_reviewed",
               "compare", "remove_reviewed", "sign", "insert"}

\* C26: after the move the quarantined tree is removed only by the step that
\* follows equal digests; a run that stops after the move for any other reason
\* leaves the tree that was reviewed at the quarantine path, and the target
\* path is empty or holds what the second lookup downloaded: nothing moves the
\* reviewed tree back.
C26_QuarantineKeptUnlessVerified ==
    /\ [](StoppedAfterMove =>
            /\ fs[QuarantinePath] # NoDir
            /\ fs[QuarantinePath] = OriginalCopy
            /\ fs[TargetPath] \in {NoDir, Dir(ServedTree(rc.name, Unwrap(rc.crate_version)))})
    /\ [][(AfterMove /\ fs'[QuarantinePath] # fs[QuarantinePath]) =>
            /\ rc.pc = "remove_reviewed"
            /\ rc.digest_clean = rc.digest_reviewed
            /\ fs'[QuarantinePath] = NoDir]_vars
    /\ [][(AfterMove /\ fs'[TargetPath] # fs[TargetPath]) =>
            /\ rc.pc = "find_crate_second"
            /\ fs[TargetPath] = NoDir
            /\ fs'[TargetPath] = Dir(ServedTree(rc.name, Unwrap(rc.crate_version)))]_vars

C26_Witness ==
    /\ StoppedAfterMove
    /\ rc.at = "digest_reviewed"
    /\ fs[QuarantinePath] = OriginalCopy
    /\ OriginalCopy # Dir(ServedTree(rc.name, Unwrap(rc.crate_version)))
    /\ fs[TargetPath] = Dir(ServedTree(rc.name, Unwrap(rc.crate_version)))

----------------------------------------------------------------------------
(* Properties of DepComputer (Spec) *)

\* compute has returned for the row frame.row
Returned == frame.pc = "idle" /\ frame.row > 0

StatusTag == rows[frame.row].computation_status.tag

InCalls(stage) == \E i \in 1..Len(calls) : calls[i] = stage

\* the digest verification of this call has produced `verified`
VerificationDone == InCalls("verify_package_digest")

\* the owners the registry returned include a known owner
KnownOwnerReturned ==
    /\ IsSome(frame.owners_list)
    /\ {Unwrap(frame.owners_list)[i] : i \in 1..Len(Unwrap(frame.owners_list))}
            \cap known_owners # {}

RegistryStages == {"get_package_review_count", DownloadStage, OwnersStage}
LateStages == {"get_open_issues_for_version", "get_rust_line_count",
               "find_latest_trusted_version"}

\* C3 (as claimed): with verified and skip_verified the call is Skipped and
\* never asks for downloads, owners or issues; with verified false or the flag
\* unset every stage runs.
C3_SkipVerifiedElseAllStages ==
    (Returned /\ VerificationDone) =>
        /\ (frame.verified /\ skip_verified) =>
            /\ StatusTag = "Skipped"
            /\ ~InCalls(DownloadStage) /\ ~InCalls(OwnersStage)
            /\ ~InCalls("get_open_issues_for_version")
        /\ (~frame.verified \/ ~skip_verified) =>
            \A st \in RegistryStages \cup LateStages : InCalls(st)

\* C3 (amended): with verified and skip_verified the call is Skipped and never
\* asks for downloads, owners or issues; with verified false or the flag unset
\* the review counts, the download counts and the owners are asked for, and
\* the issues, the size metric and the latest trusted version follow unless
\* the registry returned a known owner while skip_known_owners is set: then
\* the call is Skipped and none of the three runs.
C3_SkipVerifiedElseStagesUntilOwnerSkip ==
    (Returned /\ VerificationDone) =>
        /\ (frame.verified /\ skip_verified) =>
            /\ StatusTag = "Skipped"
            /\ ~InCalls(DownloadStage) /\ ~InCalls(OwnersStage)
            /\ ~InCalls("get_open_issues_for_version")
        /\ (~frame.verified \/ ~skip_verified) =>
            /\ \A st \in RegistryStages : InCalls(st)
            /\ IF KnownOwnerReturned /\ skip_known_owners
               THEN StatusTag = "Skipped" /\ \A st \in LateStages : ~InCalls(st)
               ELSE StatusTag = "Ok" /\ \A st \in LateStages : InCalls(st)

C3_Witness ==
    /\ Returned /\ VerificationDone
    /\ frame.verified /\ skip_verified
    /\ StatusTag = "Skipped"

\* C4 (as claimed): the call ends Skipped exactly when the registry returned
\* a known owner and skip_known_owners is set.
C4_SkippedIffKnownOwner ==
    Returned => (StatusTag = "Skipped" <=> (KnownOwnerReturned /\ skip_known_owners))

\* C4 (amended): the call ends Skipped exactly when the digest is verified and
\* skip_verified is set (the owners are then never asked for), or the owners
\* call returned a known owner and skip_known_owners is set.
C4_SkippedIffVerifiedOrKnownOwner ==
    Returned =>
        (StatusTag = "Skipped" <=>
            \/ VerificationDone /\ frame.verified /\ skip_verified
            \/ KnownOwnerReturned /\ skip_known_owners)

C4_Witness ==
    /\ Returned
    /\ StatusTag = "Skipped"
    /\ KnownOwnerReturned /\ skip_known_owners
    /\ ~frame.verified

\* the status of a row moves from Pending to InProgress and from InProgress to
\* Ok, Skipped or Failed, or stays
StatusStep(old, new) ==
    \/ new = old
    \/ old.tag = "Pending" /\ new.tag = "InProgress"
    \/ old.tag = "InProgress" /\ new.tag \in {"Ok", "Skipped", "Failed"}

\* the record of an Ok status is the one the stages of this call produced
RecordOfThisCall(dep) ==
    /\ dep.digest = Unwrap(frame.digest)
    /\ dep.verified = frame.verified
    /\ dep.reviews = Unwrap(frame.reviews)
    /\ dep.downloads = frame.downloads
    /\ dep.owners = frame.owners
    /\ dep.issues = Unwrap(frame.issues)
    /\ dep.loc = frame.loc

\* C9: the status of a dependency only moves Pending -> InProgress ->
\* {Ok, Skipped, Failed}; it is InProgress while the stages of its call run;
\* when compute returns it is Ok, Skipped or Failed, and it is Ok, with the
\* record of this call, exactly when the call ran through its last stage.
C9_StatusLifecycle ==
    /\ [](frame.pc # "idle" => rows[frame.row].computation_status = InProgress)
    /\ [](\A i \in 1..Len(rows) :
            (rows[i].computation_status = Pending) => (frame.row # i))
    /\ [](Returned =>
            /\ StatusTag \in {"Ok", "Skipped", "Failed"}
            /\ StatusTag = "Ok" <=> InCalls("find_latest_trusted_version")
            /\ StatusTag = "Failed" <=> ~VerificationDone
            /\ StatusTag = "Ok" => RecordOfThisCall(rows[frame.row].computation_status.dep))
    /\ [][\A i \in 1..Len(rows) :
            StatusStep(rows[i].computation_status, rows'[i].computation_status)]_vars

C9_Witness ==
    /\ Returned
    /\ StatusTag = "Ok"
    /\ IsSome(rows[frame.row].computation_status.dep.downloads)

\* the counts of a record are ordered
CountsOrdered(dep) ==
    /\ dep.reviews.version <= dep.reviews.total
    /\ IsSome(dep.downloads) => Unwrap(dep.downloads).version <= Unwrap(dep.downloads).total
    /\ IsSome(dep.owners) => Unwrap(dep.owners).trusted <= Unwrap(dep.owners).total
    /\ dep.issues.trusted <= dep.issues.total

\* C10 (as claimed): in every record of an Ok status the version count is at
\* most the total count and the trusted count at most the total count; an
\* answer with a version count above the total is not stored in a record.
C10_CountsOrdered ==
    \A i \in 1..Len(rows) :
        rows[i].computation_status.tag = "Ok" =>
            CountsOrdered(rows[i].computation_status.dep)

\* the collaborator calls of try_compute in the order of computer.rs:88-178
StageOrder ==
    <<"get_dir_digest", "is_digest_clean", "verify_package_digest",
      "get_package_review_count", "get_package_review_count",
      DownloadStage, OwnersStage,
      "get_open_issues_for_version", "get_open_issues_for_version",
      "get_rust_line_count", "find_latest_trusted_version">>

\* the first n calls of the order
FirstStages(n) == SubSeq(StageOrder, 1, n)

\* try_compute has returned (compute may not have stored the status yet)
TryComputeReturned == frame.pc \in {"return", "idle"} /\ frame.row > 0

\* C12: the calls of a verify call are issued in the order digest, unclean
\* check, digest verification, review counts, download counts, owners, issues,
\* size metric, latest trusted version; the registry is not asked before the
\* digest, the verification and the review counts are there; a call that
\* fails stops after the digest, one skipped for a verified digest after the
\* verification, one skipped for a known owner after the owners call, and
\* only a call that ends with a record has issued every call.
C12_StageOrder ==
    /\ Len(calls) <= Len(StageOrder)
    /\ calls = FirstStages(Len(calls))
    /\ (InCalls(DownloadStage) \/ InCalls(OwnersStage)) =>
            /\ IsSome(frame.digest)
            /\ VerificationDone
            /\ IsSome(frame.reviews)
    /\ TryComputeReturned =>
            /\ ~frame.ret.ok => calls = FirstStages(1)
            /\ (frame.ret.ok /\ ~IsSome(frame.ret.val)) =>
                    IF frame.verified /\ skip_verified
                    THEN calls = FirstStages(3)
                    ELSE calls = FirstStages(7)
            /\ (frame.ret.ok /\ IsSome(frame.ret.val)) => calls = StageOrder

C12_Witness ==
    /\ TryComputeReturned
    /\ frame.ret.ok /\ ~IsSome(frame.ret.val)
    /\ calls = FirstStages(7)

\* try_compute returns in this step
TryComputeReturns == frame.pc \notin {"idle", "return"} /\ frame'.pc = "return"

\* C11 (as claimed): every call, whatever its outcome (Ok, Skipped by either
\* flag, Failed), adds the time elapsed since its start to durations.total,
\* once, when try_compute returns; no other step changes the total.
C11_TotalSumsEveryCall ==
    [][IF TryComputeReturns
       THEN durations'.total = durations.total + (now' - frame.start)
       ELSE durations'.total = durations.total]_vars

\* the database with the conflicting reviews taken out
CleanDb == [n \in DOMAIN db |-> [db[n] EXCEPT !.conflicting_review = FALSE]]

\* what the digest verification yields on the database without them
VerifiedOnCleanDb ==
    is_verified(verify_package_digest(CleanDb, CurName, trust_set, requirements))

\* the end of a call as the answers other than the unclean check decide it
TagWithoutUnclean ==
    IF ~IsSome(frame.digest) THEN "Failed"
    ELSE IF skip_for_verified(VerifiedOnCleanDb, skip_verified) THEN "Skipped"
    ELSE IF /\ IsSome(frame.owners_list)
            /\ skip_for_known_owners(CountIn(Unwrap(frame.owners_list), known_owners),
                                      skip_known_owners)
         THEN "Skipped"
    ELSE "Ok"

CallsWithoutUnclean ==
    IF ~IsSome(frame.digest) THEN FirstStages(1)
    ELSE IF skip_for_verified(VerifiedOnCleanDb, skip_verified) THEN FirstStages(3)
    ELSE IF TagWithoutUnclean = "Skipped" THEN FirstStages(7)
    ELSE StageOrder

\* C18: the status a call reaches, the calls it issues and every field of its
\* record but unclean_digest are what the same call yields on the database
\* without the conflicting review; the flag of the record alone tells the
\* two apart, and a call with an unclean digest ends as the clean one does.
C18_UncleanDigestDiagnosticOnly ==
    Returned =>
        /\ StatusTag = TagWithoutUnclean
        /\ calls = CallsWithoutUnclean
        /\ VerificationDone =>
                /\ frame.verified = VerifiedOnCleanDb
                /\ frame.unclean_digest = db[CurName].conflicting_review
        /\ StatusTag = "Ok" =>
                LET dep == rows[frame.row].computation_status.dep
                IN  /\ dep.unclean_digest = db[CurName].conflicting_review
                    /\ [dep EXCEPT !.unclean_digest = FALSE] =
                         [digest |-> Unwrap(frame.digest),
                          name |-> CurName,
                          version |-> CurRow.id.version,
                          latest_trusted_version |-> CleanDb[CurName].latest_trusted_version,
                          trust |-> verify_package_digest(CleanDb, CurName, trust_set, requirements),
                          reviews |-> [version |-> CleanDb[CurName].version_reviews,
                                       total |-> CleanDb[CurName].total_reviews],
                          downloads |-> frame.downloads,
                          owners |-> frame.owners,
                          issues |-> [trusted |-> CleanDb[CurName].issues_from_trusted,
                                      total |-> CleanDb[CurName].issues_from_all],
                          loc |-> frame.loc,
                          has_custom_build |-> CurRow.has_custom_build,
                          unclean_digest |-> FALSE,
                          verified |-> VerifiedOnCleanDb]

C18_Witness ==
    /\ Returned
    /\ frame.unclean_digest
    /\ StatusTag = "Ok"
    /\ rows[frame.row].computation_status.dep.unclean_digest
    /\ rows[frame.row].computation_status.dep.verified

\* C14: assuming every collaborator call returns, a row that compute has
\* marked InProgress eventually gets the status Ok, Skipped or Failed; while
\* the call runs its next step is always enabled (it never waits), and it
\* makes at most as many collaborator calls as try_compute has call sites.
C14_VerifyTerminates ==
    /\ \A i \in 1..Len(BatchCrates) :
            (rows[i].computation_status = InProgress)
                ~> (rows[i].computation_status.tag \in {"Ok", "Skipped", "Failed"})
    /\ [](frame.pc # "idle" => ENABLED TryComputeSteps)
    /\ [](Len(calls) <= Len(StageOrder))

C14_Witness ==
    /\ Returned
    /\ StatusTag = "Failed"
    /\ calls = FirstStages(1)

\* every stage duration and the total are above zero
AllDurationsPositive ==
    /\ durations.digest > 0 /\ durations.loc > 0 /\ durations.latest_trusted > 0
    /\ durations.issues > 0 /\ durations.total > 0

ReturnsErr(f) == f.ret # NoRet /\ ~f.ret.ok

\* C23: a compute call ends Failed exactly when the digest of the crate root
\* could not be computed: try_compute returns an error only from the digest
\* call, so once the digest is there no later stage makes the call fail, and
\* the steps of a call that has no digest leave every field of the durations
\* as it was.
C23_FailedIffDigestFails ==
    /\ [](Returned => (StatusTag = "Failed" <=> ~IsSome(frame.digest)))
    /\ [](frame.pc = "return" => (~frame.ret.ok <=> ~IsSome(frame.digest)))
    /\ [][(frame.ret = NoRet /\ ReturnsErr(frame')) => frame.pc = "get_dir_digest"]_vars
    /\ [][~IsSome(frame'.digest) => durations' = durations]_vars

C23_Witness ==
    /\ Returned
    /\ StatusTag = "Failed"
    /\ calls = <<"get_dir_digest">>
    /\ now > 0
    /\ durations = DurationsDefault

\* the owners the registry returned to this call
ReturnedOwners == Unwrap(frame.owners_list)

\* C24: in every record with owners, total is the number of owners the
\* registry returned and trusted is the number of them that are known owners,
\* so trusted is at most total; a record built under skip_known_owners has no
\* known owner among them.
C24_OwnersMatchSkipFlag ==
    (Returned /\ StatusTag = "Ok" /\ IsSome(CurRow.computation_status.dep.owners)) =>
        LET owners == Unwrap(CurRow.computation_status.dep.owners)
        IN  /\ IsSome(frame.owners_list)
            /\ owners.total = Len(ReturnedOwners)
            /\ owners.trusted =
                 Cardinality({i \in 1..Len(ReturnedOwners) : ReturnedOwners[i] \in known_owners})
            /\ owners.trusted <= owners.total
            /\ skip_known_owners => owners.trusted = 0

C24_Witness ==
    /\ Returned
    /\ StatusTag = "Ok"
    /\ skip_known_owners
    /\ IsSome(CurRow.computation_status.dep.owners)
    /\ Unwrap(CurRow.computation_status.dep.owners) = [trusted |-> 0, total |-> 1]

----------------------------------------------------------------------------
(* Properties of a review followed by a verification (SpecReviewThenVerify) *)

\* two trees have the same files with the same bytes outside the ignore-list
SameOutside(t1, t2, ignore) == \A f \in Files \ ignore : t1[f] = t2[f]

----------------------------------------------------------------------------
(* Properties of the core as a whole (SpecCore) *)

\* how often a stage occurs in a sequence of calls
CountCalls(seq, stage) == Cardinality({i \in 1..Len(seq) : seq[i] = stage})

\* the steps of review_crate in the order of main.rs:185-244
RcOrder ==
    <<"find_crate", "assert_cwd", "remove_stale", "rename", "find_crate_second",
      "assert_eq", "digest_clean", "digest_reviewed", "compare", "remove_reviewed",
      "sign", "insert", "done">>

RcRank(pc) == CHOOSE i \in 1..Len(RcOrder) : RcOrder[i] = pc

\* C15: within one compute call get_downloads_count is called at most once and
\* get_owners at most once, no call is issued more often than try_compute
\* has call sites for it, and a call that failed is followed by the next
\* stage or the return; every step of review_crate moves on to a later step of
\* the sequence, and once a step has failed nothing more is done.
C15_NoRetries ==
    /\ [](/\ CountCalls(calls, DownloadStage) <= 1
          /\ CountCalls(calls, OwnersStage) <= 1
          /\ \A i \in 1..Len(StageOrder) :
                CountCalls(calls, StageOrder[i]) <= CountCalls(StageOrder, StageOrder[i]))
    /\ [][(frame.pc = "get_downloads_count" /\ frame' # frame) =>
                frame'.pc = "get_owners"]_vars
    /\ [][(frame.pc = "get_owners" /\ frame' # frame) =>
                frame'.pc \in {"get_open_issues", "return"}]_vars
    /\ [][(frame.pc = "get_dir_digest" /\ frame' # frame /\ ~IsSome(frame'.digest)) =>
                frame'.pc = "return"]_vars
    /\ [][(rc.pc # "idle" /\ rc' # rc) => RcRank(rc'.pc) > RcRank(rc.pc)]_vars
    /\ [][rc.pc = "done" => (rc' = rc /\ fs' = fs /\ proofs' = proofs)]_vars

C15_Witness ==
    /\ Returned
    /\ StatusTag = "Ok"
    /\ frame.downloads = None /\ frame.owners = None
    /\ CountCalls(calls, DownloadStage) = 1 /\ CountCalls(calls, OwnersStage) = 1

----------------------------------------------------------------------------
(* Properties of the `verify deps` loop (SpecVerifyDeps) *)

RegistryPkgCount ==
    Cardinality({j \in 1..Len(WorkspacePkgs) : WorkspacePkgs[j].is_registry})

\* C7 (as claimed): when the processing of one dependency fails, every other
\* dependency of the batch is still processed and gets its output line.
C7_SiblingsProcessed ==
    (vd.pc = "done" /\ vd.at \in {"download", "get_dir_digest", OwnersStage}) =>
        Len(vd.printed) = RegistryPkgCount - 1

\* C8 (as claimed): a failed registry call (download counts, owners) never
\* ends the processing of a dependency with an error and never stops the batch.
C8_RegistryFailureNeverAborts ==
    vd.pc = "done" => vd.at \notin {DownloadStage, OwnersStage}

----------------------------------------------------------------------------
(* Properties of a batch handed to one DepComputer by several workers      *)
(* (SpecBatch) *)

\* the number of rows whose status has one of the tags
CountTag(tags) ==
    Cardinality({i \in 1..Len(rows) : rows[i].computation_status.tag \in tags})

\* C21: over any sequence of compute calls, whatever their outcomes, the trust
\* set, the database, the requirements, the ignore list, the known owners and
\* the two skip flags keep the values DepComputer::new gave them; a step of a
\* call changes nothing of the DepComputer but the durations, and of the rows
\* nothing but the status of the row the call was handed.
C21_ConfigReadOnly ==
    /\ [](/\ known_owners = {"alice"}
          /\ requirements = [trust_level |-> "Low", redundancy |-> 1]
          /\ ignore_list = cargo_min_ignore_list
          /\ trust_set = calculate_trust_set(Some("id1")))
    /\ [][/\ db' = db
          /\ trust_set' = trust_set
          /\ requirements' = requirements
          /\ ignore_list' = ignore_list
          /\ known_owners' = known_owners
          /\ skip_verified' = skip_verified
          /\ skip_known_owners' = skip_known_owners
          /\ \A i \in 1..Len(rows) :
                /\ rows'[i] = [rows[i] EXCEPT
                                  !.computation_status = rows'[i].computation_status]
                /\ rows'[i] # rows[i] => i = frame'.row]_vars

C21_Witness ==
    /\ frame.pc = "idle"
    /\ rows[1].computation_status.tag = "Ok"
    /\ rows[2].computation_status.tag = "Failed"
    /\ skip_known_owners
    /\ durations.total > 0

====
